---------------------------- MODULE Spec2Model ----------------------------
(***************************************************************************)
(* A model of the character core of rpg-cli: src/character/class.rs (stat  *)
(* curves, classes, the class registry), src/character/mod.rs (Character:  *)
(* construction, leveling, experience, damage, healing, class change,      *)
(* combat formulas, status effects), src/character/enemy.rs (the enemy     *)
(* found at a location).                                                   *)
(*                                                                         *)
(* Rust values are modelled as follows.                                    *)
(*   i32              an integer (all values stay far from the i32 range   *)
(*                    except where an action says otherwise)               *)
(*   Stat(b, i)       the pair <<b, i>>                                    *)
(*   Option<T>        a sequence of length at most one: <<>> is None,      *)
(*                    <<x>> is Some(x)                                     *)
(*   Class, Character records with the fields of the structs               *)
(*   Sword, Shield    the integer their strength() returns (the equipment  *)
(*                    module is an external collaborator)                  *)
(*   random()         a set of possible outcomes; the caller picks one     *)
(***************************************************************************)
EXTENDS Integers, Sequences, FiniteSets, TLC

\* ------------------------------------------------------------------------
\* Bounds of the model

\* Spec, SpecClass and SpecHeal follow a character up to this level.
MaxLevel == 2

\* SpecLevel and SpecXp follow a character up to this level.
MaxCallLevel == 3

\* ------------------------------------------------------------------------
\* Option<T>

None == <<>>

Some(x) == <<x>>

is_some(o) == o # <<>>

is_none(o) == o = <<>>

unwrap(o) == o[1]

min(a, b) == IF a <= b THEN a ELSE b

max(a, b) == IF a >= b THEN a ELSE b

\* ------------------------------------------------------------------------
\* i32

MaxI32 == 2147483647

MinI32 == -MaxI32 - 1

\* a + b leaves the i32 range.
add_overflows(a, b) ==
    \/ b > 0 /\ a > MaxI32 - b
    \/ b < 0 /\ a < MinI32 - b

\* a.wrapping_add(b): what a + b gives when overflow checks are off.
wrapping_add(a, b) ==
    IF b > 0 /\ a > MaxI32 - b THEN MinI32 + (a - (MaxI32 - b) - 1)
    ELSE IF b < 0 /\ a < MinI32 - b THEN MaxI32 - ((MinI32 - b) - a - 1)
    ELSE a + b

\* ------------------------------------------------------------------------
\* class.rs: Stat

Stat(b, i) == <<b, i>>

base(s) == s[1]

increase(s) == s[2]

at(s, level) == s[1] + (level - 1) * increase(s)

\* ------------------------------------------------------------------------
\* class.rs: Category, Class and the registry

Category == {"Player", "Common", "Rare", "Legendary"}

is_magic(class) == is_some(class.mp)

\* static CLASSES: the registry, a map from each category to its classes.
\* It is set once, by Class::load or from classes.yaml, and read ever after.
VARIABLE CLASSES

of(category) == CLASSES[category]

player_first == of("Player")[1]

HasName(class, name) == class.name = name

\* player_by_name looking in every category.
player_by_name_any(name) ==
    LET found == SelectSeq(of("Player") \o of("Common") \o of("Rare")
                           \o of("Legendary"),
                           LAMBDA class : HasName(class, name))
    IN  IF found = <<>> THEN None ELSE Some(found[1])

player_by_name(name) ==
    LET found == SelectSeq(of("Player"), LAMBDA class : HasName(class, name))
    IN  IF found = <<>> THEN None ELSE Some(found[1])

\* ------------------------------------------------------------------------
\* randomizer: the outcomes random() may give

\* stat_increase jitters a per-level gain around its nominal value and never
\* gives a negative gain.
stat_increase(inc) == (inc - inc \div 2) .. (inc + inc \div 2)

\* enemy_level jitters the level computed for an enemy by one level at most
\* and gives at least 1.
enemy_level(l) == max(1, l - 1) .. (l + 1)

\* damage jitters a status-effect tick around its base and gives at least 1.
damage_jitter(value) == max(1, value - value \div 5) .. (value + (value + 4) \div 5)


\* ------------------------------------------------------------------------
\* mod.rs: Character

StatusEffect == {"Burn", "Poison"}

\* What an operation gives back: the character after it, and its return
\* value as a tag ("Ok", "Dead", "ClassNotFound") and the integers it carries.
Out(c, tag, val) == [c |-> c, tag |-> tag, val |-> val]

\* The four random().stat_increase draws of one level-up.
Rolls(class) ==
    [strength : stat_increase(increase(class.strength)),
     speed : stat_increase(increase(class.speed)),
     hp : stat_increase(increase(class.hp)),
     mp : IF is_some(class.mp) THEN stat_increase(increase(unwrap(class.mp))) ELSE {0}]

\* increase_level raising current_hp and current_mp by the nominal increase
\* instead of keeping the damage taken and the mp used.
increase_level_nominal(c, r) ==
    [c EXCEPT !.level = @ + 1,
              !.strength = @ + r.strength,
              !.speed = @ + r.speed,
              !.max_hp = @ + r.hp,
              !.current_hp = @ + increase(c.class.hp),
              !.max_mp = @ + (IF is_some(c.class.mp) THEN r.mp ELSE 0),
              !.current_mp = @ + (IF is_some(c.class.mp)
                                  THEN increase(unwrap(c.class.mp)) ELSE 0)]

\* increase_level with the draws r.
increase_level_with(c, r) ==
    LET previous_damage == c.max_hp - c.current_hp
        max_hp == c.max_hp + r.hp
        previous_used_mp == c.max_mp - c.current_mp
        max_mp == c.max_mp + (IF is_some(c.class.mp) THEN r.mp ELSE 0)
    IN  [c EXCEPT !.level = @ + 1,
                  !.strength = @ + r.strength,
                  !.speed = @ + r.speed,
                  !.max_hp = max_hp,
                  !.current_hp = max_hp - previous_damage,
                  !.max_mp = max_mp,
                  !.current_mp = max_mp - previous_used_mp]

\* The characters increase_level may leave.
increase_level(c) == {increase_level_with(c, r) : r \in Rolls(c.class)}

RECURSIVE increase_levels(_, _)
\* for _ in 0..level { character.increase_level() } when the level-ups draw
\* the rolls rs in turn.
increase_levels(c, rs) ==
    IF rs = <<>> THEN c
    ELSE increase_levels(increase_level_with(c, Head(rs)), Tail(rs))

\* Character::new letting the loop run from 1: one level-up short.
new_from_one(class, level, rs) ==
    LET character == [class |-> class, sword |-> None, shield |-> None,
                      level |-> 1, xp |-> 0,
                      max_hp |-> base(class.hp), current_hp |-> base(class.hp),
                      max_mp |-> IF is_some(class.mp) THEN base(unwrap(class.mp)) ELSE 0,
                      current_mp |-> IF is_some(class.mp) THEN base(unwrap(class.mp)) ELSE 0,
                      strength |-> base(class.strength), speed |-> base(class.speed),
                      status_effect |-> None]
    IN  increase_levels(character, Tail(rs))

\* Character::new(class, level) when its level-ups draw the rolls rs.
new_with(class, level, rs) ==
    LET max_hp == base(class.hp) - increase(class.hp)
        strength == base(class.strength) - increase(class.strength)
        speed == base(class.speed) - increase(class.speed)
        max_mp == IF is_some(class.mp)
                  THEN base(unwrap(class.mp)) - increase(unwrap(class.mp))
                  ELSE 0
        character == [class |-> class, sword |-> None, shield |-> None,
                      level |-> 0, xp |-> 0,
                      max_hp |-> max_hp, current_hp |-> max_hp,
                      max_mp |-> max_mp, current_mp |-> max_mp,
                      strength |-> strength, speed |-> speed,
                      status_effect |-> None]
    IN  increase_levels(character, rs)

\* The rolls the level-ups of Character::new(class, level) may draw.
NewRolls(class, level) == [1 .. level -> Rolls(class)]

\* The characters Character::new(class, level) may build.
new(class, level) ==
    {new_with(class, level, rs) : rs \in NewRolls(class, level)}

RECURSIVE floor_sqrt(_, _, _)
\* The largest r in lo .. hi with r * r <= n, by bisection.
floor_sqrt(n, lo, hi) ==
    IF lo >= hi THEN lo
    ELSE LET mid == (lo + hi + 1) \div 2
         IN  IF mid * mid <= n THEN floor_sqrt(n, mid, hi)
             ELSE floor_sqrt(n, lo, mid - 1)

\* xp_for_next with thresholds of 3 * level^1.5.
xp_for_next_tenth(c) ==
    IF c.level <= 0 THEN 0
    ELSE floor_sqrt(9 * c.level * c.level * c.level, 0, 3 * c.level * c.level)

\* xp_for_next rounding to the nearest integer where the cast truncates.
xp_for_next_rounded(c) ==
    IF c.level <= 0 THEN 0
    ELSE LET square == 900 * c.level * c.level * c.level
             n == floor_sqrt(square, 0, 30 * c.level * c.level)
         IN  IF (2 * n + 1) * (2 * n + 1) <= 4 * square THEN n + 1 ELSE n

\* (30.0 * (level as f64).powf(1.5)) as i32: the cast truncates, so this is
\* the integer part of 30 * level^1.5 = sqrt(900 * level^3). (For a level
\* below 1 the levels of the model give 0.)
xp_for_next(c) ==
    IF c.level <= 0 THEN 0
    ELSE floor_sqrt(900 * c.level * c.level * c.level, 0, 30 * c.level * c.level)

\* add_experience with an `if` for its `while`: one level-up at most.
add_experience_once(c, for_next, increased_levels) ==
    IF c.xp >= for_next
    THEN {Out([c2 EXCEPT !.xp = @ - for_next], "Ok", <<increased_levels + 1>>) :
          c2 \in increase_level(c)}
    ELSE {Out(c, "Ok", <<increased_levels>>)}

RECURSIVE add_experience_loop_late(_, _, _)
\* The loop taking from xp the threshold of the level just reached.
add_experience_loop_late(c, for_next, increased_levels) ==
    IF c.xp >= for_next
    THEN UNION {LET c3 == [c2 EXCEPT !.xp = @ - xp_for_next(c2)]
                IN  add_experience_loop_late(c3, xp_for_next(c3), increased_levels + 1) :
                c2 \in increase_level(c)}
    ELSE {Out(c, "Ok", <<increased_levels>>)}

RECURSIVE add_experience_loop(_, _, _)
\* The while loop of add_experience.
add_experience_loop(c, for_next, increased_levels) ==
    IF c.xp >= for_next
    THEN UNION {LET c3 == [c2 EXCEPT !.xp = @ - for_next]
                IN  add_experience_loop(c3, xp_for_next(c3), increased_levels + 1) :
                c2 \in increase_level(c)}
    ELSE {Out(c, "Ok", <<increased_levels>>)}

add_experience(c, xp) ==
    LET c1 == [c EXCEPT !.xp = @ + xp]
    IN  add_experience_loop(c1, xp_for_next(c1), 0)

\* receive_damage without the branch that stops at 0.
receive_damage_unclamped(c, damage) ==
    Out([c EXCEPT !.current_hp = @ - damage],
        IF damage >= c.current_hp THEN "Dead" ELSE "Ok", <<>>)

\* receive_damage comparing with > where the code has >=.
receive_damage_strict(c, damage) ==
    IF damage > c.current_hp
    THEN Out([c EXCEPT !.current_hp = 0], "Dead", <<>>)
    ELSE Out([c EXCEPT !.current_hp = @ - damage], "Ok", <<>>)

receive_damage(c, damage) ==
    IF damage >= c.current_hp
    THEN Out([c EXCEPT !.current_hp = 0], "Dead", <<>>)
    ELSE Out([c EXCEPT !.current_hp = @ - damage], "Ok", <<>>)

is_dead(c) == c.current_hp = 0

\* min(max, current + amount) and its difference from current, computed
\* in i32 as heal and restore_mp do: the new value of the pool, the tag
\* and the value returned. A build with overflow checks panics at the
\* addition (before the pool is assigned) or at the subtraction (after
\* it); a build without them wraps both.
restored(current, maximum, amount) ==
    LET value == min(maximum, wrapping_add(current, amount))
    IN  {[pool |-> value, tag |-> "Ok", val |-> <<wrapping_add(value, -current)>>]}
        \cup (IF add_overflows(current, amount)
              THEN {[pool |-> current, tag |-> "Panic", val |-> <<>>]}
              ELSE IF add_overflows(value, -current)
              THEN {[pool |-> value, tag |-> "Panic", val |-> <<>>]}
              ELSE {})

\* The outcomes of heal(amount).
heal(c, amount) ==
    {Out([c EXCEPT !.current_hp = r.pool], r.tag, r.val) :
        r \in restored(c.current_hp, c.max_hp, amount)}

\* The outcomes of restore_mp(amount).
restore_mp(c, amount) ==
    {Out([c EXCEPT !.current_mp = r.pool], r.tag, r.val) :
        r \in restored(c.current_mp, c.max_mp, amount)}

\* The outcomes of heal_full: heal(max_hp), then restore_mp(max_mp).
heal_full(c) ==
    UNION {IF h.tag = "Panic" THEN {Out(h.c, "Panic", <<>>)}
           ELSE {IF m.tag = "Panic" THEN Out(h.c, "Panic", <<>>)
                 ELSE Out(m.c, "Ok", h.val \o m.val) :
                 m \in restore_mp(h.c, h.c.max_mp)} :
           h \in heal(c, c.max_hp)}

\* The outcomes of change_class(name).
\* change_class's branch for a class found, without putting the equipment
\* back after the re-roll.
change_class_bare(c, class) ==
    {Out([n EXCEPT !.xp = 0], "Ok", <<c.xp>>) :
     n \in IF c.level = 1 THEN new(class, 1) ELSE {[c EXCEPT !.class = class]}}

\* change_class's branch for a class found, forcing the base mp of a magic
\* class whatever max_mp is.
change_class_regrant(c, class) ==
    IF c.level = 1
    THEN {Out([n EXCEPT !.sword = c.sword, !.shield = c.shield, !.xp = 0],
              "Ok", <<c.xp>>) : n \in new(class, 1)}
    ELSE IF is_magic(class)
    THEN {LET base_mp == base(unwrap(class.mp)) - increase(unwrap(class.mp)) + r
          IN  Out([c EXCEPT !.class = class, !.max_mp = base_mp,
                            !.current_mp = base_mp, !.xp = 0],
                  "Ok", <<c.xp>>) :
          r \in stat_increase(increase(unwrap(class.mp)))}
    ELSE {Out([c EXCEPT !.class = class, !.xp = 0], "Ok", <<c.xp>>)}

\* change_class's branch for a class found, never forcing the base mp.
change_class_plain(c, class) ==
    IF c.level = 1
    THEN {Out([n EXCEPT !.sword = c.sword, !.shield = c.shield, !.xp = 0],
              "Ok", <<c.xp>>) : n \in new(class, 1)}
    ELSE {Out([c EXCEPT !.class = class, !.xp = 0], "Ok", <<c.xp>>)}

\* change_class re-rolling the character at level 1 whatever its level.
change_class_reset(c, class) ==
    {Out([n EXCEPT !.sword = c.sword, !.shield = c.shield, !.xp = 0],
         "Ok", <<c.xp>>) : n \in new(class, 1)}

\* change_class's branch for a class found by player_by_name.
change_class_to(c, class) ==
    LET lost_xp == c.xp
    IN  IF c.level = 1
        THEN {Out([n EXCEPT !.sword = c.sword, !.shield = c.shield, !.xp = 0],
                  "Ok", <<lost_xp>>) : n \in new(class, 1)}
        ELSE IF is_magic(class) /\ c.max_mp = 0
        THEN {LET base_mp == base(unwrap(class.mp)) - increase(unwrap(class.mp)) + r
              IN  Out([c EXCEPT !.class = class, !.max_mp = base_mp,
                                !.current_mp = base_mp, !.xp = 0],
                      "Ok", <<lost_xp>>) :
              r \in stat_increase(increase(unwrap(class.mp)))}
        ELSE {Out([c EXCEPT !.class = class, !.xp = 0], "Ok", <<lost_xp>>)}

\* change_class without the comparison to the current class name.
change_class_unchecked(c, name) ==
    IF is_some(player_by_name(name))
    THEN change_class_to(c, unwrap(player_by_name(name)))
    ELSE {Out(c, "ClassNotFound", <<>>)}

change_class(c, name) ==
    IF name = c.class.name THEN {Out(c, "Ok", <<0>>)}
    ELSE IF is_some(player_by_name(name))
    THEN change_class_to(c, unwrap(player_by_name(name)))
    ELSE {Out(c, "ClassNotFound", <<>>)}

\* i32 division: the quotient is truncated towards zero.
quot(a, b) ==
    IF a >= 0
    THEN (IF b > 0 THEN a \div b ELSE -(a \div (-b)))
    ELSE (IF b > 0 THEN -((-a) \div b) ELSE (-a) \div (-b))

\* xp_gained multiplying before it divides.
xp_gained_late_division(c, receiver, damage) ==
    LET class_multiplier == CASE receiver.class.category = "Rare" -> 3
                              [] receiver.class.category = "Legendary" -> 5
                              [] OTHER -> 1
    IN  IF receiver.level > c.level
        THEN damage * (1 + receiver.level - c.level) * class_multiplier
        ELSE quot(damage * class_multiplier, 1 + c.level - receiver.level)

xp_gained(c, receiver, damage) ==
    LET class_multiplier == CASE receiver.class.category = "Rare" -> 3
                              [] receiver.class.category = "Legendary" -> 5
                              [] OTHER -> 1
    IN  IF receiver.level > c.level
        THEN damage * (1 + receiver.level - c.level) * class_multiplier
        ELSE quot(damage, 1 + c.level - receiver.level) * class_multiplier

deffense(c) == IF is_some(c.shield) THEN unwrap(c.shield) ELSE 0

\* physical_attack adding the sword for magic classes too.
physical_attack_armed(c) ==
    (IF is_magic(c.class) THEN c.strength \div 3 ELSE c.strength)
        + (IF is_some(c.sword) THEN unwrap(c.sword) ELSE 0)

physical_attack(c) ==
    IF is_magic(c.class) THEN c.strength \div 3
    ELSE c.strength + (IF is_some(c.sword) THEN unwrap(c.sword) ELSE 0)

magic_attack(c) == IF is_magic(c.class) THEN c.strength * 3 ELSE 0

mp_cost(c) ==
    IF is_some(c.class.mp) THEN at(unwrap(c.class.mp), c.level) \div 3 ELSE 0

\* can_magic_attack asking for more mp than the attack costs.
can_magic_attack_strict(c) == is_magic(c.class) /\ c.current_mp > mp_cost(c)

can_magic_attack(c) == is_magic(c.class) /\ c.current_mp >= mp_cost(c)

\* damage(receiver) without the floor of 1.
damage_unfloored(c, receiver) ==
    IF can_magic_attack(c)
    THEN <<magic_attack(c) - deffense(receiver), mp_cost(c)>>
    ELSE <<physical_attack(c) - deffense(receiver), 0>>

\* damage(receiver): the pair (damage, mp cost).
damage(c, receiver) ==
    LET attack == IF can_magic_attack(c)
                  THEN <<magic_attack(c), mp_cost(c)>>
                  ELSE <<physical_attack(c), 0>>
    IN  <<max(1, attack[1] - deffense(receiver)), attack[2]>>

maybe_remove_status_effect(c) ==
    IF is_some(c.status_effect)
    THEN Out([c EXCEPT !.status_effect = None], "Ok", <<1>>)
    ELSE Out(c, "Ok", <<0>>)

\* receive_status_effect_damage curing the character it hurts.
receive_status_effect_damage_cured(c) ==
    IF c.status_effect \in {Some("Burn"), Some("Poison")}
    THEN {LET r == receive_damage([c EXCEPT !.status_effect = None], d)
          IN  IF r.tag = "Dead" THEN Out(r.c, "Dead", <<>>) ELSE Out(r.c, "Ok", <<d>>) :
          d \in damage_jitter(max(1, c.max_hp \div 20))}
    ELSE {Out(c, "Ok", <<>>)}

\* The outcomes of receive_status_effect_damage: Ok(Some(damage)) carries
\* the damage, Ok(None) carries nothing.
receive_status_effect_damage(c) ==
    IF c.status_effect \in {Some("Burn"), Some("Poison")}
    THEN {LET r == receive_damage(c, d)
          IN  IF r.tag = "Dead" THEN Out(r.c, "Dead", <<>>) ELSE Out(r.c, "Ok", <<d>>) :
          d \in damage_jitter(max(1, c.max_hp \div 20))}
    ELSE {Out(c, "Ok", <<>>)}

\* ------------------------------------------------------------------------
\* enemy.rs: the enemy found at a location. A location is the record
\* [is_home, is_rpg_dir, distance] of what Location answers, its distance
\* the record [tier, len] of a Distance::Near(len), Mid(len) or Far(len).

Tier == {"Near", "Mid", "Far"}

Distance(tier, len) == [tier |-> tier, len |-> len]

\* Class::random(category): any class of the category.
random(category) == {of(category)[i] : i \in 1 .. Len(of(category))}

\* level() without the - 1.
level_deeper(player_level, distance_from_home) ==
    enemy_level(max(quot(player_level, 2) + distance_from_home, 1))

\* The level of level() before random().enemy_level.
level_target(player_level, distance_from_home) ==
    max(quot(player_level, 2) + distance_from_home - 1, 1)

level(player_level, distance_from_home) ==
    enemy_level(level_target(player_level, distance_from_home))

\* should_find_shadow anywhere: without location.is_home().
should_find_shadow_anywhere(location, ratio) == ratio

\* ratio is what rng.gen_ratio(1, 10) gives.
should_find_shadow(location, ratio) == location.is_home /\ ratio

should_find_dev(location, ratio) == location.is_rpg_dir /\ ratio

\* choose_weighted: an item is chosen with a probability proportional to
\* its weight, so any item of positive weight may be and no other.
choose_weighted(weights) ==
    {weights[i] : i \in {j \in 1 .. Len(weights) : weights[j][2] > 0}}

\* weighted_choice with Far's weights at every distance.
weighted_choice_far(distance) ==
    {w[1] : w \in choose_weighted(<<<<"Common", 1>>, <<"Rare", 6>>, <<"Legendary", 3>>>>)}

weighted_choice(distance) ==
    LET w == CASE distance.tier = "Near" -> <<9, 2, 0>>
               [] distance.tier = "Mid" -> <<7, 10, 1>>
               [] distance.tier = "Far" -> <<1, 6, 3>>
        weights == <<<<"Common", w[1]>>, <<"Rare", w[2]>>, <<"Legendary", w[3]>>>>
    IN  {chosen[1] : chosen \in choose_weighted(weights)}

\* at(location, player): the enemies it may build when the two
\* rng.gen_ratio(1, 10) give ratios.shadow and ratios.dev.
enemy_at(location, player, ratios) ==
    IF should_find_shadow(location, ratios.shadow)
    THEN new([player.class EXCEPT !.name = "shadow"], player.level + 3)
    ELSE IF should_find_dev(location, ratios.dev)
    THEN new([player_first EXCEPT !.name = "dev",
                                  !.hp = Stat(quot(base(@), 2), increase(@)),
                                  !.strength = Stat(quot(base(@), 2), increase(@)),
                                  !.speed = Stat(quot(base(@), 2), increase(@))],
             player.level)
    ELSE UNION {new(class, l) :
                class \in UNION {random(category) :
                                 category \in weighted_choice(location.distance)},
                l \in level(player.level, location.distance.len)}

\* ------------------------------------------------------------------------
\* The state: the registry, the player's character, its opponent and the
\* last call made, when that call was to an operation the specification
\* watches

VARIABLES
    hero,       \* the player's Character
    foe,        \* the Character it fights
    log,        \* the names of the operations watched (fixed from the start)
    pre,        \* the Character as it was before the last call
    op,         \* the operation called ("new" after construction)
    amount,     \* its integer argument (0 when it takes none)
    name,       \* its string argument ("" when it takes none)
    ret,        \* its return value: [tag, val]
    location,   \* the location of the call, when it is at(location, player)
    drawn,      \* what random() and the rng gave during the call
    events      \* what class changes did to max_mp so far, when "max_mp"
                \* is among the names watched

vars == <<CLASSES, hero, foe, log, pre, op, amount, name, ret, location, drawn,
          events>>

\* The location recorded when the last call was not at(location, player).
Nowhere == [is_home |-> FALSE, is_rpg_dir |-> FALSE, distance |-> Distance("Near", 0)]

\* What the call of `o` that took the character c to d did to max_mp:
\* "granted" is a class change above level 1 that forced the base mp,
\* "kept" one that left a class without mp curve the mp of before.
Noted(o, c, d) ==
    IF o = "change_class" /\ c.level > 1 /\ d.class # c.class
    THEN (IF d.max_mp # c.max_mp THEN {"granted"} ELSE {})
         \cup (IF is_none(d.class.mp) /\ d.max_mp = c.max_mp /\ c.max_mp # 0
               THEN {"kept"} ELSE {})
    ELSE {}

Returned(tag, val) == [tag |-> tag, val |-> val]

\* The operation `o` called with arguments a and n took the hero to out.c
\* and returned (out.tag, out.val). A call to an operation that is not
\* watched leaves no trace: "" is recorded, with the character it left.
Called(o, a, n, out) ==
    /\ hero' = out.c
    /\ UNCHANGED <<CLASSES, foe, log>>
    /\ location' = Nowhere
    /\ drawn' = <<>>
    /\ events' = IF "max_mp" \in log THEN events \cup Noted(o, hero, out.c) ELSE events
    /\ IF o \in log
       THEN /\ pre' = hero
            /\ op' = o
            /\ amount' = a
            /\ name' = n
            /\ ret' = Returned(out.tag, out.val)
       ELSE /\ pre' = out.c
            /\ op' = ""
            /\ amount' = 0
            /\ name' = ""
            /\ ret' = Returned("", <<>>)

PlayerClasses == {of("Player")[i] : i \in 1 .. Len(of("Player"))}

Class(n, category, hp, mp, strength, speed) ==
    [name |-> n, category |-> category, hp |-> hp, mp |-> mp,
     strength |-> strength, speed |-> speed]

\* from_bytes: the classes of a configuration, grouped by category in the
\* order they are listed.
from_bytes(classes) ==
    [category \in Category |->
        SelectSeq(classes, LAMBDA class : class.category = category)]

\* A new game under the configuration `classes`: the registry is loaded,
\* the hero is Character::new(class, 1) for a player class and the foe is
\* a level 1 enemy of the first common class.
Start(classes, watched) ==
    /\ CLASSES = from_bytes(classes)
    /\ \E class \in PlayerClasses : \E rs \in NewRolls(class, 1) :
          /\ hero = new_with(class, 1, rs)
          /\ drawn = rs
    /\ foe \in new(of("Common")[1], 1)
    /\ log = watched
    /\ pre = hero
    /\ op = "new"
    /\ amount = 1
    /\ name = hero.class.name
    /\ ret = Returned("Ok", <<>>)
    /\ location = Nowhere
    /\ events = {}

IncreaseLevel(cap) ==
    /\ hero.level < cap
    /\ \E c \in increase_level(hero) :
          Called("increase_level", 0, "", Out(c, "Ok", <<>>))

AddExperience(xp, cap) ==
    /\ \A out \in add_experience(hero, xp) : out.c.level <= cap
    /\ \E out \in add_experience(hero, xp) :
          Called("add_experience", xp, "", out)

ReceiveDamage(d) == Called("receive_damage", d, "", receive_damage(hero, d))

Heal(a) == \E out \in heal(hero, a) : Called("heal", a, "", out)

RestoreMp(a) == \E out \in restore_mp(hero, a) : Called("restore_mp", a, "", out)

HealFull == \E out \in heal_full(hero) : Called("heal_full", 0, "", out)

ChangeClass(n) ==
    \E out \in change_class(hero, n) :
        Called("change_class", 0, n, out)

MaybeRemoveStatusEffect ==
    Called("maybe_remove_status_effect", 0, "", maybe_remove_status_effect(hero))

ReceiveStatusEffectDamage ==
    \E out \in receive_status_effect_damage(hero) :
        Called("receive_status_effect_damage", 0, "", out)

\* The battle loop attacks a foe: it calls damage() and takes the mp cost it
\* reports from the attacker's current_mp.
Attack ==
    LET d == damage(hero, foe)
    IN  Called("attack", 0, "", Out([hero EXCEPT !.current_mp = @ - d[2]], "Ok", d))

\* A call of damage(receiver) alone, the hero attacking the foe: both are
\* borrowed immutably.
Damage ==
    Called("damage", 0, "", Out(hero, "Ok", damage(hero, foe)))

\* The foe takes up a shield or lays it down.
EquipFoe(sh) ==
    /\ foe.shield # sh
    /\ foe' = [foe EXCEPT !.shield = sh]
    /\ pre' = hero /\ op' = "" /\ amount' = 0 /\ name' = ""
    /\ ret' = Returned("", <<>>)
    /\ location' = Nowhere /\ drawn' = <<>>
    /\ UNCHANGED <<CLASSES, hero, log, events>>

\* Character::new(class, l) starts the hero anew.
New(class, l) ==
    \E rs \in NewRolls(class, l) :
        /\ hero' = new_with(class, l, rs)
        /\ pre' = hero'
        /\ op' = "new" /\ amount' = l /\ name' = class.name
        /\ ret' = Returned("Ok", <<>>)
        /\ location' = Nowhere /\ drawn' = rs
        /\ UNCHANGED <<CLASSES, foe, log, events>>

\* xp_for_next() of the hero.
XpForNext == Called("xp_for_next", 0, "", Out(hero, "Ok", <<xp_for_next(hero)>>))

\* xp_gained(receiver, d) of the hero for a blow of d to the foe.
XpGained(d) ==
    Called("xp_gained", d, "", Out(hero, "Ok", <<xp_gained(hero, foe, d)>>))

\* at(l, player): the hero finds an enemy at the location l.
Encounter(l) ==
    \E ratios \in [shadow : BOOLEAN, dev : BOOLEAN] :
        \E enemy \in enemy_at(l, hero, ratios) :
            /\ foe' = enemy
            /\ pre' = hero
            /\ op' = "at" /\ amount' = 0 /\ name' = ""
            /\ ret' = Returned("Ok", <<>>)
            /\ location' = l /\ drawn' = ratios
            /\ UNCHANGED <<CLASSES, hero, log, events>>

\* The battle loop sets the status effect an enemy's attack inflicts.
Inflict(e) ==
    /\ hero.status_effect # Some(e)
    /\ Called("inflict", 0, e, Out([hero EXCEPT !.status_effect = Some(e)], "Ok", <<>>))

\* The game equips a sword and a shield.
Equip(sw, sh) ==
    /\ <<sw, sh>> # <<hero.sword, hero.shield>>
    /\ Called("equip", 0, "",
              Out([hero EXCEPT !.sword = sw, !.shield = sh], "Ok", <<>>))

\* ------------------------------------------------------------------------
\* Spec: a character's life, any sequence of the operations on its pools,
\* called with non-negative amounts

XpAmounts == {84}

DamageAmounts == {1, 100}

HealAmounts == {1, 100}

ClassNames == {"warrior", "thief", "mage", "rat", "choripan"}

\* The configuration of the registry. classes.yaml names the player classes
\* warrior (the first), thief and mage, of which only mage has an mp curve;
\* the curves here are small stand-ins for its numbers. The warrior's hp and
\* the mage's mp grow by 2 a level, which stat_increase makes 1, 2 or 3.
Classes ==
    <<Class("warrior", "Player", Stat(5, 2), None, Stat(4, 1), Stat(2, 1)),
      Class("thief", "Player", Stat(4, 1), None, Stat(3, 1), Stat(3, 1)),
      Class("mage", "Player", Stat(3, 1), Some(Stat(4, 2)), Stat(2, 1), Stat(1, 1)),
      Class("rat", "Common", Stat(3, 1), None, Stat(2, 1), Stat(3, 1)),
      Class("warlock", "Rare", Stat(4, 1), Some(Stat(3, 1)), Stat(3, 1), Stat(2, 1)),
      Class("dragon", "Legendary", Stat(8, 2), None, Stat(5, 1), Stat(2, 1))>>

\* As Classes, with a warrior whose hp grows by 1 a level, which
\* stat_increase leaves at 1.
PlainClasses ==
    <<Class("warrior", "Player", Stat(4, 1), None, Stat(4, 1), Stat(2, 1))>>
    \o Tail(Classes)

Init == Start(Classes, {})

Next ==
    \/ IncreaseLevel(MaxLevel)
    \/ \E xp \in XpAmounts : AddExperience(xp, MaxLevel)
    \/ \E d \in DamageAmounts : ReceiveDamage(d)
    \/ \E a \in HealAmounts : Heal(a)
    \/ \E a \in HealAmounts : RestoreMp(a)
    \/ HealFull
    \/ \E n \in ClassNames : ChangeClass(n)
    \/ MaybeRemoveStatusEffect
    \/ ReceiveStatusEffectDamage
    \/ Attack
    \/ Inflict("Burn")

Spec == Init /\ [][Next]_vars

\* ------------------------------------------------------------------------
\* SpecClass: class changes, of characters with experience, equipment, a
\* status effect, damage taken and mp spent

ClassXpAmounts == {28}

ClassDamageAmounts == {3}

InitClass == Start(PlainClasses, {"change_class"})

NextClass ==
    \/ IncreaseLevel(MaxLevel)
    \/ \E xp \in ClassXpAmounts : AddExperience(xp, MaxLevel)
    \/ \E d \in ClassDamageAmounts : ReceiveDamage(d)
    \/ Attack
    \/ \E n \in ClassNames : ChangeClass(n)
    \/ Equip(Some(2), Some(1))
    \/ Inflict("Poison")

SpecClass == InitClass /\ [][NextClass]_vars

\* ------------------------------------------------------------------------
\* SpecLevel: level-ups of characters with damage taken and mp spent

LevelDamageAmounts == {2}

InitLevel == Start(Classes, {"increase_level"})

NextLevel ==
    \/ IncreaseLevel(MaxCallLevel)
    \/ \E d \in LevelDamageAmounts : ReceiveDamage(d)
    \/ Attack
    \/ \E n \in {"warrior", "mage"} : ChangeClass(n)

SpecLevel == InitLevel /\ [][NextLevel]_vars

\* ------------------------------------------------------------------------
\* SpecXp: experience

LevelXpAmounts == {0, 20, 25, 30, 120}

InitXp == Start(Classes, {"add_experience"})

NextXp ==
    \/ \E xp \in LevelXpAmounts : AddExperience(xp, MaxCallLevel)
    \/ \E n \in {"warrior", "mage"} : ChangeClass(n)

SpecXp == InitXp /\ [][NextXp]_vars

\* ------------------------------------------------------------------------
\* SpecHeal: healing with any i32 amount

AnyAmounts == {MinI32, -1, 0, 1, 3, MaxI32}

InitHeal == Start(PlainClasses, {"heal", "restore_mp", "heal_full"})

\* The calls go on for as long as both pools are non-negative.
InRange == hero.current_hp >= 0 /\ hero.current_mp >= 0

NextHeal ==
    \/ InRange /\ IncreaseLevel(MaxLevel)
    \/ InRange /\ \E d \in DamageAmounts : ReceiveDamage(d)
    \/ InRange /\ Attack
    \/ InRange /\ \E a \in AnyAmounts : Heal(a)
    \/ InRange /\ \E a \in AnyAmounts : RestoreMp(a)
    \/ InRange /\ HealFull

SpecHeal == InitHeal /\ [][NextHeal]_vars

\* ------------------------------------------------------------------------
\* SpecCombat: attacks of a warrior and of a mage, armed or not, against a
\* foe behind no shield, a small one and one stronger than any attack.
StrongShield == 50

InitCombat == Start(PlainClasses, {"damage"})

NextCombat ==
    \/ IncreaseLevel(MaxLevel)
    \/ \E n \in {"warrior", "mage"} : ChangeClass(n)
    \/ \E sw \in {None, Some(2)} : Equip(sw, None)
    \/ \E sh \in {None, Some(1), Some(StrongShield)} : EquipFoe(sh)
    \/ Attack
    \/ Damage

SpecCombat == InitCombat /\ [][NextCombat]_vars

\* ------------------------------------------------------------------------
\* SpecDamage: blows of every size, none included, on a character that
\* levels up, heals, changes class, carries equipment and burns.
BlowAmounts == {0, 1, 2, 3, 100}

InitDamage == Start(PlainClasses, {"receive_damage"})

NextDamage ==
    \/ IncreaseLevel(MaxLevel)
    \/ \E d \in BlowAmounts : ReceiveDamage(d)
    \/ Heal(1)
    \/ \E n \in {"warrior", "mage"} : ChangeClass(n)
    \/ Equip(Some(2), Some(1))
    \/ Inflict("Burn")

SpecDamage == InitDamage /\ [][NextDamage]_vars

\* ------------------------------------------------------------------------
\* SpecMp: level-ups and class changes only, with the history of max_mp.
InitMp == Start(Classes, {"max_mp"})

NextMp ==
    \/ IncreaseLevel(MaxCallLevel)
    \/ \E n \in ClassNames : ChangeClass(n)

SpecMp == InitMp /\ [][NextMp]_vars

\* ------------------------------------------------------------------------
\* SpecEnemy: the enemies found at home, in the rpg directory and away, by
\* a leveling hero, and the experience their defeat gives. No curve of this
\* configuration rises by more than 1 a level, which stat_increase leaves
\* at 1, so that a class and a level make one character.
FlatClasses ==
    <<Class("warrior", "Player", Stat(4, 1), None, Stat(4, 1), Stat(2, 1)),
      Class("thief", "Player", Stat(4, 1), None, Stat(3, 1), Stat(3, 1)),
      Class("mage", "Player", Stat(3, 1), Some(Stat(4, 1)), Stat(2, 1), Stat(1, 1)),
      Class("rat", "Common", Stat(3, 1), None, Stat(2, 1), Stat(3, 1)),
      Class("warlock", "Rare", Stat(4, 1), Some(Stat(3, 1)), Stat(3, 1), Stat(2, 1)),
      Class("dragon", "Legendary", Stat(8, 1), None, Stat(5, 1), Stat(2, 1))>>

\* The locations away from home are up to this many directories from it.
MaxDepth == 2

\* Home is at distance Near(0); it may be the rpg directory as well.
Locations ==
    {[is_home |-> TRUE, is_rpg_dir |-> r, distance |-> Distance("Near", 0)] :
     r \in BOOLEAN}
    \cup {[is_home |-> FALSE, is_rpg_dir |-> r, distance |-> Distance(t, d)] :
          r \in BOOLEAN, t \in Tier, d \in 1 .. MaxDepth}

BlowsDealt == {1, 3}

InitEnemy == Start(FlatClasses, {"at", "xp_gained"})

NextEnemy ==
    \/ IncreaseLevel(MaxLevel)
    \/ \E l \in Locations : Encounter(l)
    \/ \E d \in BlowsDealt : XpGained(d)

SpecEnemy == InitEnemy /\ [][NextEnemy]_vars

\* ------------------------------------------------------------------------
\* SpecStatus: the ticks of a burn or a poison, on a warrior whose max_hp
\* of 40 makes max_hp / 20 = 2 and on classes for which it is 0.
ToughClasses ==
    <<Class("warrior", "Player", Stat(40, 1), None, Stat(4, 1), Stat(2, 1))>>
    \o Tail(Classes)

WoundAmounts == {15}

InitStatus == Start(ToughClasses, {"receive_status_effect_damage"})

NextStatus ==
    \/ IncreaseLevel(MaxLevel)
    \/ \E d \in WoundAmounts : ReceiveDamage(d)
    \/ \E e \in StatusEffect : Inflict(e)
    \/ MaybeRemoveStatusEffect
    \/ ReceiveStatusEffectDamage

SpecStatus == InitStatus /\ [][NextStatus]_vars

\* ------------------------------------------------------------------------
\* SpecNew: characters of every class of the registry built at every level
\* up to MaxNewLevel, and the experience their next level takes.
MaxNewLevel == 4

AllClasses == UNION {random(category) : category \in Category}

InitNew == Start(Classes, {"new", "xp_for_next"})

NextNew ==
    \/ \E class \in AllClasses : \E l \in 1 .. MaxNewLevel : New(class, l)
    \/ XpForNext

SpecNew == InitNew /\ [][NextNew]_vars

\* ------------------------------------------------------------------------
\* SpecGrant: warriors and thieves built at every level up to MaxGrantLevel
\* that turn to magic, attack, and turn back.
MaxGrantLevel == 5

InitGrant == Start(PlainClasses, {"change_class"})

NextGrant ==
    \/ \E class \in {c \in PlayerClasses : ~is_magic(c)} :
          \E l \in 1 .. MaxGrantLevel : New(class, l)
    \/ \E n \in {"warrior", "thief", "mage"} : ChangeClass(n)
    \/ Attack

SpecGrant == InitGrant /\ [][NextGrant]_vars

\* ------------------------------------------------------------------------
\* SpecLife: every operation that takes &mut self, on a character built at
\* level 1; level-ups and experience are watched.
LifeXpAmounts == {120}
LifeDamageAmounts == {2}

InitLife == Start(PlainClasses, {"increase_level", "add_experience"})

NextLife ==
    \/ IncreaseLevel(MaxCallLevel)
    \/ \E xp \in LifeXpAmounts : AddExperience(xp, MaxCallLevel)
    \/ \E d \in LifeDamageAmounts : ReceiveDamage(d)
    \/ Heal(100)
    \/ RestoreMp(100)
    \/ HealFull
    \/ \E n \in ClassNames : ChangeClass(n)
    \/ Inflict("Poison")
    \/ MaybeRemoveStatusEffect
    \/ ReceiveStatusEffectDamage
    \/ Attack

SpecLife == InitLife /\ [][NextLife]_vars

\* ------------------------------------------------------------------------
\* SpecLoop: characters built at level 0 and at level 1 that gain experience.
LoopXpAmounts == {0, 5, 30, 120}

InitLoop == Start(PlainClasses, {"add_experience"})

NextLoop ==
    \/ \E class \in PlayerClasses : \E l \in 0 .. 1 : New(class, l)
    \/ \E xp \in LoopXpAmounts : AddExperience(xp, MaxCallLevel)

SpecLoop == InitLoop /\ [][NextLoop]_vars

\* ------------------------------------------------------------------------
\* The claims

C2_RestoreAnyAmount ==
    /\ op = "heal" /\ ret.tag = "Ok" =>
          /\ hero.current_hp <= hero.max_hp
          /\ ret.val[1] >= 0
          /\ ret.val[1] = hero.current_hp - pre.current_hp
          /\ pre.current_hp = pre.max_hp => ret.val[1] = 0
          /\ hero = [pre EXCEPT !.current_hp = hero.current_hp]
    /\ op = "restore_mp" /\ ret.tag = "Ok" =>
          /\ hero.current_mp <= hero.max_mp
          /\ ret.val[1] >= 0
          /\ ret.val[1] = hero.current_mp - pre.current_mp
          /\ pre.current_mp = pre.max_mp => ret.val[1] = 0
          /\ hero = [pre EXCEPT !.current_mp = hero.current_mp]

\* C3: increase_level raises level by exactly 1 and leaves max_hp -
\* current_hp and max_mp - current_mp as they were, whatever the increase
\* drawn; for a class without an mp curve max_mp and current_mp do not
\* change.
C3_LevelUpKeepsDeficits ==
    op = "increase_level" =>
        /\ hero.level = pre.level + 1
        /\ hero.max_hp - hero.current_hp = pre.max_hp - pre.current_hp
        /\ hero.max_mp - hero.current_mp = pre.max_mp - pre.current_mp
        /\ pre.class.mp = None =>
              /\ hero.max_mp = pre.max_mp
              /\ hero.current_mp = pre.current_mp

\* A level-up of a character with damage taken and mp spent, whose max_hp
\* grew by more than the nominal increase.
C3_Witness ==
    /\ op = "increase_level"
    /\ pre.current_hp < pre.max_hp
    /\ pre.current_hp > 0
    /\ pre.current_mp < pre.max_mp
    /\ hero.max_hp > pre.max_hp + increase(pre.class.hp)

\* C4: after add_experience(amount) on a character of level >= 1,
\* xp < xp_for_next(level) at the new level, and the value returned is the
\* number of levels gained, also when one amount crosses several
\* thresholds.
C4_ExperienceSettles ==
    op = "add_experience" /\ pre.level >= 1 =>
        /\ hero.xp < xp_for_next(hero)
        /\ ret.val = <<hero.level - pre.level>>

\* One amount that crossed two thresholds.
C4_Witness ==
    /\ op = "add_experience"
    /\ pre.level = 1
    /\ hero.level = 3
    /\ ret.val = <<2>>

\* The Player classes of the registry that carry the name.
PlayerNamed(n) ==
    {i \in 1..Len(CLASSES["Player"]) : CLASSES["Player"][i].name = n}

\* C5: change_class with a name that is not the current class name and not
\* the name of a Player class of the registry returns ClassNotFound and
\* leaves every field of the character as it was.
C5_UnknownClassRejected ==
    op = "change_class" /\ name # pre.class.name /\ PlayerNamed(name) = {} =>
        /\ ret = Returned("ClassNotFound", <<>>)
        /\ hero = pre

\* The name of an enemy class refused to an equipped, poisoned character
\* with experience.
C5_Witness ==
    /\ op = "change_class"
    /\ name = "rat"
    /\ ret.tag = "ClassNotFound"
    /\ pre.xp > 0
    /\ is_some(pre.shield)
    /\ is_some(pre.status_effect)

\* C6: change_class with the current class name does nothing at any
\* level: it returns 0 and leaves xp and every other field as they were.
C6_SameClassNoOp ==
    op = "change_class" /\ name = pre.class.name =>
        /\ ret = Returned("Ok", <<0>>)
        /\ hero = pre

\* The current class asked for at level 1, where another class would
\* re-roll the wounded character and take its experience.
C6_Witness ==
    /\ op = "change_class"
    /\ name = pre.class.name
    /\ pre.level = 1
    /\ pre.xp > 0
    /\ pre.current_hp < pre.max_hp

\* C7: change_class to another Player class at level 1 gives a freshly
\* built level 1 character of that class (level 1, xp 0, both pools full,
\* stats drawn again, no status effect) with the sword and the shield of
\* before, and returns the xp held before.
C7_LevelOneReroll ==
    op = "change_class" /\ name # pre.class.name /\ PlayerNamed(name) # {}
        /\ pre.level = 1 =>
        /\ ret = Returned("Ok", <<pre.xp>>)
        /\ hero.class.name = name
        /\ hero.level = 1
        /\ hero.xp = 0
        /\ hero.current_hp = hero.max_hp
        /\ hero.current_mp = hero.max_mp
        /\ hero.status_effect = None
        /\ hero.sword = pre.sword
        /\ hero.shield = pre.shield
        /\ \E n \in new(hero.class, 1) :
              /\ hero.max_hp = n.max_hp
              /\ hero.max_mp = n.max_mp
              /\ hero.strength = n.strength
              /\ hero.speed = n.speed

\* A wounded, poisoned, equipped level 1 character with experience that
\* became a mage.
C7_Witness ==
    /\ op = "change_class"
    /\ pre.level = 1
    /\ pre.class.name = "warrior"
    /\ hero.class.name = "mage"
    /\ pre.xp > 0
    /\ pre.current_hp < pre.max_hp
    /\ is_some(pre.status_effect)
    /\ is_some(pre.sword)
    /\ is_some(pre.shield)

\* C8: change_class to another Player class above level 1 replaces the
\* class, sets xp to 0 and returns the xp held before; level, max_hp,
\* current_hp, strength, speed, sword, shield and status_effect stay;
\* max_mp and current_mp change exactly when the new class is magic and
\* max_mp was 0, and then both become mp.base - mp.increase +
\* stat_increase(mp.increase).
C8_HigherLevelSwap ==
    op = "change_class" /\ name # pre.class.name /\ PlayerNamed(name) # {}
        /\ pre.level > 1 =>
        /\ ret = Returned("Ok", <<pre.xp>>)
        /\ hero.class.name = name
        /\ hero.class.category = "Player"
        /\ hero.xp = 0
        /\ hero.level = pre.level
        /\ hero.max_hp = pre.max_hp
        /\ hero.current_hp = pre.current_hp
        /\ hero.strength = pre.strength
        /\ hero.speed = pre.speed
        /\ hero.sword = pre.sword
        /\ hero.shield = pre.shield
        /\ hero.status_effect = pre.status_effect
        /\ IF is_some(hero.class.mp) /\ pre.max_mp = 0
           THEN /\ hero.max_mp # pre.max_mp
                /\ hero.current_mp # pre.current_mp
                /\ hero.current_mp = hero.max_mp
                /\ \E r \in stat_increase(hero.class.mp[1][2]) :
                      hero.max_mp = hero.class.mp[1][1] - hero.class.mp[1][2] + r
           ELSE /\ hero.max_mp = pre.max_mp
                /\ hero.current_mp = pre.current_mp

\* A wounded level 2 character without mp that became a mage and got the
\* base mp.
C8_Witness ==
    /\ op = "change_class"
    /\ pre.level > 1
    /\ pre.max_mp = 0
    /\ hero.class.name = "mage"
    /\ hero.max_mp > 0
    /\ pre.xp > 0
    /\ pre.current_hp < pre.max_hp

\* C9: the damage that damage(receiver) returns is max(1, raw -
\* receiver.deffense()), raw being the magic or the physical attack value of
\* the attacker and deffense the strength of the receiver's shield, so it is
\* at least 1 whatever the shield; and the call changes neither character.
C9_DamageAtLeastOne ==
    [][op' = "damage" =>
          /\ hero' = hero
          /\ foe' = foe
          /\ ret'.val[1] >= 1
          /\ LET shield == IF foe.shield = <<>> THEN 0 ELSE foe.shield[1]
             IN  \E raw \in {magic_attack(hero), physical_attack(hero)} :
                    ret'.val[1] = (IF raw - shield > 1 THEN raw - shield ELSE 1)]_vars

\* An armed level 2 character hitting a shield stronger than its attack.
C9_Witness ==
    /\ op = "damage"
    /\ hero.level = MaxLevel
    /\ is_some(hero.sword)
    /\ foe.shield = Some(StrongShield)
    /\ ret.val[1] = 1

\* The mp that one magic attack of the character costs: a third of the mp
\* curve at its level.
Cost(c) ==
    IF c.class.mp = <<>> THEN 0
    ELSE (c.class.mp[1][1] + (c.level - 1) * c.class.mp[1][2]) \div 3

\* C10: damage() attacks with magic (strength * 3) and reports mp_cost() =
\* mp_curve.at(level) / 3 as spent exactly when the class has an mp curve
\* and current_mp >= mp_cost(); otherwise it attacks physically and reports
\* 0, so a class without mp curve never attacks with magic, mp left or not,
\* and a magic character one mp short attacks with strength / 3.
C10_MagicWhenAffordable ==
    op = "damage" =>
        LET shield == IF foe.shield = <<>> THEN 0 ELSE foe.shield[1]
            sword == IF pre.sword = <<>> THEN 0 ELSE pre.sword[1]
            raw == ret.val[1] + shield
        IN  IF pre.class.mp # <<>> /\ pre.current_mp >= Cost(pre)
            THEN /\ ret.val[2] = Cost(pre)
                 /\ ret.val[1] > 1 => raw = pre.strength * 3
                 /\ ret.val[1] = 1 => pre.strength * 3 - shield <= 1
            ELSE /\ ret.val[2] = 0
                 /\ LET physical == IF pre.class.mp # <<>>
                                    THEN pre.strength \div 3
                                    ELSE pre.strength + sword
                    IN  /\ ret.val[1] > 1 => raw = physical
                        /\ ret.val[1] = 1 => physical - shield <= 1

\* A level 2 mage with 1 mp left, one short of the cost of 2, attacking
\* physically.
C10_Witness ==
    /\ op = "damage"
    /\ pre.class.mp # <<>>
    /\ pre.current_mp > 0
    /\ pre.current_mp = Cost(pre) - 1
    /\ ret.val[2] = 0
    /\ foe.shield = None

\* C11: receive_damage(amount) sets current_hp to 0 and signals Dead when
\* amount >= current_hp, and otherwise takes amount from current_hp and
\* succeeds; so it signals Dead exactly when current_hp == 0 right after the
\* call, and no field but current_hp changes.
C11_DeadIffNoHpLeft ==
    op = "receive_damage" =>
        /\ IF amount >= pre.current_hp
           THEN hero.current_hp = 0 /\ ret = Returned("Dead", <<>>)
           ELSE hero.current_hp = pre.current_hp - amount /\ ret = Returned("Ok", <<>>)
        /\ ret.tag = "Dead" <=> hero.current_hp = 0
        /\ hero = [pre EXCEPT !.current_hp = hero.current_hp]

\* A blow of exactly the hp left kills an equipped, burning character.
C11_Witness ==
    /\ op = "receive_damage"
    /\ amount = pre.current_hp
    /\ amount > 0
    /\ ret.tag = "Dead"
    /\ is_some(pre.status_effect)
    /\ is_some(pre.sword)

\* C12 as claimed: in every state reached from Character::new by level-ups
\* and class changes, max_mp == 0 exactly when the current class has no mp
\* curve and no class change has ever forced the base mp.
C12_NoMpIffNoCurveNoGrant ==
    hero.max_mp = 0 <=> (hero.class.mp = None /\ "granted" \notin events)

\* C12 as amended: max_mp == 0 exactly when the current class has no mp
\* curve, no class change has ever forced the base mp and no class change
\* above level 1 has left the character the max_mp it had.
C12_NoMpIffNeverHadMp ==
    hero.max_mp = 0 <=>
        (hero.class.mp = None /\ "granted" \notin events /\ "kept" \notin events)

\* A mage that became a warrior above level 1, kept its mp and leveled up.
C12_Witness ==
    /\ hero.class.name = "warrior"
    /\ hero.max_mp > 0
    /\ events = {"kept"}
    /\ hero.level = MaxCallLevel

\* C13: xp_gained(receiver, damage) is damage * (1 + receiver.level -
\* self.level) * m when the receiver's level is the higher, and (damage /
\* (1 + self.level - receiver.level)) * m otherwise, the division truncated
\* before the multiplication; m is 3 for a Rare receiver, 5 for a Legendary
\* one and 1 for a Player or Common one. So equal levels give damage * m, a
\* receiver one level higher twice that and a receiver one level lower
\* half the damage, truncated, times m.
C13_XpGained ==
    op = "xp_gained" =>
        LET m == IF foe.class.category = "Rare" THEN 3
                 ELSE IF foe.class.category = "Legendary" THEN 5
                 ELSE 1
            up == foe.level - pre.level
            gained == ret.val[1]
        IN  /\ foe.class.category \in {"Player", "Common", "Rare", "Legendary"}
            /\ up > 0 => gained = amount * (1 + up) * m
            /\ up <= 0 => gained = (amount \div (1 - up)) * m
            /\ up = 0 => gained = amount * m
            /\ up = 1 => gained = 2 * amount * m
            /\ up = -1 => gained = (amount \div 2) * m

\* A blow of 3 to a Rare enemy one level below: (3 / 2) * 3 = 3.
C13_Witness ==
    /\ op = "xp_gained"
    /\ foe.class.category = "Rare"
    /\ foe.level = pre.level - 1
    /\ amount = 3
    /\ ret.val = <<3>>

\* The enemy did not come from the shadow or the dev branch of at().
Normal == foe.class.name \notin {"shadow", "dev"}

\* C14: the normal path of at() never picks a category of weight 0 for the
\* distance: at Near (common 9, rare 2, legendary 0) the enemy is never
\* Legendary, and at every distance its category is Common, Rare or
\* Legendary, never Player.
C14_NoZeroWeightCategory ==
    op = "at" /\ Normal =>
        /\ location.distance.tier = "Near" => foe.class.category \in {"Common", "Rare"}
        /\ foe.class.category \in {"Common", "Rare", "Legendary"}

\* Near home, and not at home, a Rare enemy is found.
C14_Witness ==
    /\ op = "at"
    /\ Normal
    /\ location.distance.tier = "Near"
    /\ ~location.is_home
    /\ foe.class.category = "Rare"

\* C15: at() gives the shadow (the player's class, level player.level + 3)
\* only at home and the dev only in the rpg directory; where neither holds
\* the enemy comes from the normal path; and where both hold the shadow is
\* tried first, so that a shadow found leaves no dev.
C15_ShadowAndDevOnlyInPlace ==
    op = "at" =>
        /\ foe.class.name = "shadow" =>
              /\ location.is_home
              /\ foe.class = [pre.class EXCEPT !.name = "shadow"]
              /\ foe.level = pre.level + 3
        /\ foe.class.name = "dev" => location.is_rpg_dir
        /\ ~location.is_home /\ ~location.is_rpg_dir =>
              \E category \in {"Common", "Rare", "Legendary"} :
                  \E i \in 1 .. Len(CLASSES[category]) : foe.class = CLASSES[category][i]
        /\ location.is_home /\ location.is_rpg_dir /\ drawn.shadow =>
              foe.class.name = "shadow"

\* At a home that is the rpg directory both chances come up and the shadow
\* of a level 2 mage is found.
C15_Witness ==
    /\ op = "at"
    /\ location.is_home
    /\ location.is_rpg_dir
    /\ drawn.shadow
    /\ drawn.dev
    /\ foe.class.name = "shadow"
    /\ foe.class.mp # None
    /\ foe.level = MaxLevel + 3

\* C19: in a normal encounter the level aimed at before the jitter is
\* max(player.level / 2 + depth - 1, 1), the division truncated: it is at
\* least 1 for every player level >= 1 and depth >= 0 and falls neither
\* with the player level nor with the depth; without jitter level(1, 1) = 1,
\* level(1, 3) = 2, level(5, 2) = 3 and level(10, 3) = 7.
C19_EnemyLevelTarget ==
    /\ op = "at" /\ Normal =>
          LET sum == pre.level \div 2 + location.distance.len - 1
              target == IF sum > 1 THEN sum ELSE 1
          IN  /\ target >= 1
              /\ level_target(pre.level, location.distance.len) = target
              /\ foe.level \in enemy_level(target)
    /\ level_target(1, 1) = 1
    /\ level_target(1, 3) = 2
    /\ level_target(5, 2) = 3
    /\ level_target(10, 3) = 7
    /\ \A player_level \in 1 .. 10 : \A depth \in 0 .. 3 :
          /\ level_target(player_level, depth) >= 1
          /\ level_target(player_level + 1, depth) >= level_target(player_level, depth)
          /\ level_target(player_level, depth + 1) >= level_target(player_level, depth)

\* A level 2 player two directories from home meets an enemy of level 3,
\* one above the level 2 aimed at.
C19_Witness ==
    /\ op = "at"
    /\ Normal
    /\ pre.level = 2
    /\ location.distance.len = 2
    /\ foe.level = 3

\* C16: receive_status_effect_damage without a status returns "no effect"
\* and changes nothing; with Burn or Poison it passes the jitter of
\* max(1, max_hp / 20) to receive_damage and returns that damage, which is
\* the fall of current_hp, when the character survives, and Dead with
\* current_hp == 0 otherwise; it never clears status_effect.
C16_StatusTick ==
    op = "receive_status_effect_damage" =>
        IF pre.status_effect = None
        THEN ret = Returned("Ok", <<>>) /\ hero = pre
        ELSE LET tick == IF pre.max_hp \div 20 > 1 THEN pre.max_hp \div 20 ELSE 1
             IN  /\ hero.status_effect = pre.status_effect
                 /\ hero = [pre EXCEPT !.current_hp = hero.current_hp]
                 /\ \/ /\ ret = Returned("Dead", <<>>)
                       /\ hero.current_hp = 0
                       /\ \E d \in damage_jitter(tick) : d >= pre.current_hp
                    \/ /\ ret.tag = "Ok"
                       /\ Len(ret.val) = 1
                       /\ ret.val[1] \in damage_jitter(tick)
                       /\ ret.val[1] = pre.current_hp - hero.current_hp
                       /\ hero.current_hp > 0

\* A poisoned character of max_hp 40 loses 3 hp, one above max_hp / 20, and
\* stays poisoned.
C16_Witness ==
    /\ op = "receive_status_effect_damage"
    /\ pre.status_effect = Some("Poison")
    /\ pre.max_hp >= 40
    /\ ret = Returned("Ok", <<3>>)
    /\ hero.current_hp = pre.current_hp - 3
    /\ hero.status_effect = Some("Poison")

RECURSIVE Total(_, _)
\* The sum of the draws rs made for the stat f.
Total(rs, f) == IF rs = <<>> THEN 0 ELSE Head(rs)[f] + Total(Tail(rs), f)

\* Every draw of rs for the stat f is the nominal increase inc.
Nominal(rs, f, inc) == \A i \in 1 .. Len(rs) : rs[i][f] = inc

\* C17: Character::new(class, L), L >= 1, applies the level-up exactly L
\* times from level 0 and the values base - increase, so that it gives
\* level L, xp 0, full pools, no equipment and no status effect; when the
\* draws are nominal max_hp, strength, speed, and max_mp for a magic class,
\* are base + (L - 1) * increase; max_mp is 0 for a class without mp curve.
C17_NewCharacter ==
    op = "new" =>
        LET class == hero.class
            L == amount
        IN  /\ L >= 1
            /\ Len(drawn) = L
            /\ hero.level = L
            /\ hero.xp = 0
            /\ hero.current_hp = hero.max_hp
            /\ hero.current_mp = hero.max_mp
            /\ hero.sword = None /\ hero.shield = None
            /\ hero.status_effect = None
            /\ hero.max_hp = class.hp[1] - class.hp[2] + Total(drawn, "hp")
            /\ hero.strength = class.strength[1] - class.strength[2] + Total(drawn, "strength")
            /\ hero.speed = class.speed[1] - class.speed[2] + Total(drawn, "speed")
            /\ Nominal(drawn, "hp", class.hp[2]) =>
                  hero.max_hp = class.hp[1] + (L - 1) * class.hp[2]
            /\ Nominal(drawn, "strength", class.strength[2]) =>
                  hero.strength = class.strength[1] + (L - 1) * class.strength[2]
            /\ Nominal(drawn, "speed", class.speed[2]) =>
                  hero.speed = class.speed[1] + (L - 1) * class.speed[2]
            /\ IF class.mp = None
               THEN hero.max_mp = 0
               ELSE /\ hero.max_mp = class.mp[1][1] - class.mp[1][2] + Total(drawn, "mp")
                    /\ Nominal(drawn, "mp", class.mp[1][2]) =>
                          hero.max_mp = class.mp[1][1] + (L - 1) * class.mp[1][2]

\* A mage built at level 4 with nominal draws has the max_mp of its curve,
\* 4 + 3 * 2.
C17_Witness ==
    /\ op = "new"
    /\ amount = 4
    /\ hero.class.name = "mage"
    /\ Nominal(drawn, "mp", 2)
    /\ hero.max_mp = 10
    /\ hero.level = 4

\* C18: for every level >= 1 xp_for_next is the integer part of
\* 30 * level^1.5, the largest n with n * n <= 900 * level^3: 30, 84 and 155
\* at the levels 1, 2 and 3, never below 30 and more at each level than at
\* the one before.
C18_XpForNext ==
    op = "xp_for_next" /\ hero.level >= 1 =>
        LET L == hero.level
            n == ret.val[1]
        IN  /\ n * n <= 900 * L * L * L
            /\ (n + 1) * (n + 1) > 900 * L * L * L
            /\ L = 1 => n = 30
            /\ L = 2 => n = 84
            /\ L = 3 => n = 155
            /\ n >= 30
            /\ L >= 2 => n > xp_for_next([hero EXCEPT !.level = L - 1])

\* The 155 of level 3, where 30 * 3^1.5 = 155.88 is nearer to 156.
C18_Witness ==
    /\ op = "xp_for_next"
    /\ hero.level = 3
    /\ ret.val = <<155>>

RECURSIVE Thresholds(_, _)
\* The sum of xp_for_next at the levels from .. to - 1.
Thresholds(from, to) ==
    IF from >= to THEN 0
    ELSE xp_for_next([level |-> from]) + Thresholds(from + 1, to)

\* C20: add_experience loses no experience: from level L0 >= 1 with xp x0,
\* add_experience(a) reaches a level L1 and an xp x1 with x0 + a = x1 + the
\* sum of xp_for_next(l) for l in L0 .. L1 - 1, each threshold being that of
\* the level left; so level 1, xp 0, + 120 gives level 3 with xp 6.
C20_ExperienceConserved ==
    op = "add_experience" /\ pre.level >= 1 =>
        /\ pre.xp + amount = hero.xp + Thresholds(pre.level, hero.level)
        /\ pre.level = 1 /\ pre.xp = 0 /\ amount = 120 =>
              hero.level = 3 /\ hero.xp = 6
        /\ pre.level = 1 /\ hero.level = 2 => hero.xp = pre.xp + amount - 30

\* Level 1 with xp 0 and 120 more: level 3 with xp 6.
C20_Witness ==
    /\ op = "add_experience"
    /\ pre.level = 1
    /\ pre.xp = 0
    /\ amount = 120
    /\ hero.level = 3
    /\ hero.xp = 6

\* C21 as claimed: when change_class above level 1 takes a character with
\* max_mp == 0 into a magic class, the character can attack with magic at
\* once: current_mp == max_mp > 0 and current_mp >= mp_cost() at its level.
C21_GrantEnablesMagic ==
    op = "change_class" /\ pre.level > 1 /\ pre.max_mp = 0
        /\ name # pre.class.name /\ hero.class.mp # None =>
        /\ hero.current_mp = hero.max_mp
        /\ hero.max_mp > 0
        /\ hero.current_mp >= Cost(hero)
        /\ can_magic_attack(hero)

\* The strength of an equipped item, 0 when the slot is empty.
Strength(item) == IF item = <<>> THEN 0 ELSE item[1]

\* C22: equipment enters combat in two places only.  Whatever sword the
\* attacker holds, physical_attack() of a non-magic class is strength plus the
\* sword's strength, while for a magic class the magic attack stays
\* strength * 3, the fallback stays strength / 3 and damage() returns what it
\* returns without a sword.  deffense() is the shield's strength or 0, whatever
\* the strength and level of the character carrying it.
C22_EquipmentInCombat ==
    op = "damage" =>
        /\ \A sw \in {None, Some(1), Some(2)} :
              LET armed == [pre EXCEPT !.sword = sw]
              IN  IF pre.class.mp = <<>>
                  THEN /\ physical_attack(armed) = pre.strength + Strength(sw)
                       /\ damage(armed, foe) =
                              <<max(1, pre.strength + Strength(sw)
                                           - Strength(foe.shield)), 0>>
                  ELSE /\ physical_attack(armed) = pre.strength \div 3
                       /\ magic_attack(armed) = pre.strength * 3
                       /\ damage(armed, foe) = ret.val
        /\ deffense(foe) = Strength(foe.shield)
        /\ \A sh \in {None, Some(1), Some(StrongShield)} :
              /\ deffense([pre EXCEPT !.shield = sh]) = Strength(sh)
              /\ damage(foe, [pre EXCEPT !.shield = sh]) =
                     <<max(1, foe.strength - Strength(sh)), 0>>

\* A magic character too short of mp for a magic attack strikes with a sword
\* in hand, and a swordsman strikes a shielded enemy.
C22_Witness ==
    /\ op = "damage"
    /\ pre.class.mp # <<>>
    /\ pre.sword = Some(2)
    /\ pre.level = 2
    /\ pre.current_mp < Cost(pre)
    /\ foe.shield = Some(1)
    /\ ret.val = <<max(1, pre.strength \div 3 - 1), 0>>

\* C23: a character built at level 1 or more always has level >= 1 and
\* xp >= 0, and no step lowers its level (the re-roll of a class change at
\* level 1 included).  A step that raises the level is increase_level, by 1,
\* or add_experience, by the number of thresholds the experience crosses: the
\* levels it returns, with the thresholds of the levels left covered by the
\* experience and the next one not.
C23_LevelNeverFalls ==
    /\ [](hero.level >= 1 /\ hero.xp >= 0)
    /\ [][/\ hero'.level >= hero.level
          /\ hero'.level > hero.level =>
                \/ /\ op' = "increase_level"
                   /\ hero'.level = hero.level + 1
                \/ /\ op' = "add_experience"
                   /\ pre' = hero
                   /\ ret'.val = <<hero'.level - hero.level>>
                   /\ Thresholds(hero.level, hero'.level) <= hero.xp + amount'
                   /\ hero.xp + amount' < Thresholds(hero.level, hero'.level + 1)]_vars

\* A thief that had changed class at level 1 crosses two thresholds with one
\* add_experience.
C23_Witness ==
    /\ op = "add_experience"
    /\ pre.level = 1
    /\ hero.level = 3
    /\ ret.val = <<2>>
    /\ hero.class.name = "thief"

\* C24: add_experience ends, for a character of any level from 0 on and any
\* amount, after a bounded number of level-ups.  The loop is the recursion of
\* add_experience_loop, which returns the number of its iterations: it is at
\* most (prior xp + amount) / 30 + 1; every iteration at a level >= 1 takes
\* at least 30 xp, the one at level 0 takes none and leads to level 1; and the
\* loop leaves an xp below the next threshold.
C24_LevelUpsBounded ==
    op = "add_experience" =>
        LET gained == ret.val[1]
            total == pre.xp + amount
        IN  /\ gained >= 0
            /\ gained = hero.level - pre.level
            /\ gained <= total \div 30 + 1
            /\ pre.level >= 1 => 30 * gained <= total - hero.xp
            /\ pre.level = 0 =>
                  /\ gained >= 1
                  /\ 30 * (gained - 1) <= total - hero.xp
            /\ hero.xp >= 0
            /\ hero.xp < xp_for_next(hero)

\* A character built at level 0 receives 30 xp and goes up twice, which is
\* 30 / 30 + 1 times: once for the threshold of 0 and once for that of 30.
C24_Witness ==
    /\ op = "add_experience"
    /\ pre.level = 0
    /\ pre.xp = 0
    /\ amount = 30
    /\ ret.val = <<2>>
    /\ hero.level = 2
    /\ hero.xp = 0

=============================================================================
